---- MODULE Spec2Model ----
(***************************************************************************)
(* A model of wparc/wpapi/crawler.py: the route dump session               *)
(* (collect_data, dump_route_list, dump_route_dict, get_self_url) and the  *)
(* media download session (collect_files, _download_file_task, get_file).  *)
(*                                                                         *)
(* The server, the file system and the user are the environment: every     *)
(* GET picks its outcome (a response, a transport failure, a user          *)
(* interrupt) from a small set.  Writing an output file is taken to        *)
(* succeed; the record k of page p is the pair <<p, k>>, so the content    *)
(* of a file shows which pages it came from and in which order.  The code  *)
(* reads the length of a page only to tell an empty page from a non-empty  *)
(* one, so a non-empty page holds PageLen records.                         *)
(***************************************************************************)
EXTENDS Integers, Sequences, FiniteSets, TLC

\* ------------------------------------------------------------ bounds
MaxRoutes == 2      \* routes in the discovery document
MaxPages == 3       \* the server sends no non-empty page beyond this one
MaxRetry == 2       \* retry_count ranges over 0..MaxRetry
PageLen == 2        \* records on a non-empty page

\* Python's None and an optional value.
None == << >>
Some(x) == << x >>

VARIABLES
    \* ---- collect_data
    pc,               \* where the session is
    get_unknown,      \* parameter of collect_data
    retry_count,      \* parameter of collect_data, handed to dump_route_list
    total_routes,     \* len(allroutes)
    idx,              \* how many routes the for loop has taken
    routes_processed,
    routes_skipped,
    error,            \* the exception collect_data ended with, or None
    raised,           \* that exception as raised for the root document: type, status, message
    \* ---- the dumper in progress
    result,           \* how the dumper ended: "return", "raise", "interrupt"
    page,
    rc,
    outdata,
    total_pages,
    files,            \* the data directory: <<route, suffix>> -> file
    \* ---- history (not read by the program)
    req,              \* the latest GET: [route, page, n]
    last,             \* outcome of the latest GET
    got,              \* got[p]: the response accepted for page p
    writes,           \* files written by the dumper in progress
    branch,           \* the branch of the loop body the latest route took
    root,             \* what the GET of the API root met
    route             \* the descriptor of the latest route, where sessions keep it

dataVars == << pc, get_unknown, retry_count, total_routes, idx, routes_processed,
               routes_skipped, error, result, page, rc, outdata, total_pages,
               files, req, last, got, writes, branch, raised, root, route >>

\* the state of collect_files
VARIABLES
    fpc,              \* where collect_files is
    resume,           \* parameter of collect_files
    workers,          \* parameter of collect_files: size of the pool
    manifest,         \* wp_v2_media.jsonl: None (no file) or Some(its lines)
    ckfile,           \* the checkpoint file: missing, corrupt, or the paths it lists
    disk,             \* the paths that exist under <domain>/files
    checkpoint,       \* the set shared by the tasks
    tasks,            \* the futures, in submission order
    downloaded, failed, skipped, total,
    ferror,           \* the exception collect_files ended with, or None
    saves,            \* calls of _save_checkpoint
    run,              \* 1 in the first call of collect_files, 2 in a second one
    first             \* what the first call did, for the second one

fileVars == << fpc, resume, workers, manifest, ckfile, disk, checkpoint, tasks,
               downloaded, failed, skipped, total, ferror, saves, run, first >>

\* the state of _test_route
VARIABLES
    tpc,              \* where the call is
    troute,           \* its arguments route and route_data
    probes,           \* what its GETs meet: <<paged probe, plain GET>>
    category,         \* what it returned
    tgets             \* the GETs it made

probeVars == << tpc, troute, probes, category, tgets >>

\* the state of test_unknown_routes
VARIABLES
    bpc,              \* where the batch is
    unknown,          \* len(unknown_routes)
    bi,               \* how many of them the for loop has taken
    present,          \* those of them found in wpjson["routes"], by position
    categorized       \* category -> the routes appended to its list, by position

batchVars == << bpc, unknown, bi, present, categorized >>

\* the output files of one collect_data session, by name
VARIABLES
    npc,              \* where the loop over allroutes is
    allroutes,        \* the keys of wpjson["routes"]
    taken,            \* the routes the loop has handled
    outfiles          \* the files written: the name and the route written to it

nameVars == << npc, allroutes, taken, outfiles >>

\* ------------------------------------------------------------ files
NoFile == [exists |-> FALSE, rows |-> << >>]
File(rows) == [exists |-> TRUE, rows |-> rows]
\* what an earlier session left behind
StaleFile == File(<< <<0, 0>> >>)
\* resp.text of a singleton route
DictText == << <<0, 1>> >>
FileNames == (1..MaxRoutes) \X {"jsonl", "json"}

\* ------------------------------------------------------------ route descriptors
Categories == {"protected", "public-list", "public-dict", "useless"}
SelfShapes == {"no_links", "no_self", "dict_href", "dict_nohref", "str",
               "list_empty", "list_href", "list_nohref", "other"}
EndpointShapes == {"missing", "empty", "noargs", "args_list", "paged", "plain"}
\* tbl: the reference-table lists naming the route; hasP: "?P" in the path
RouteDescriptors == [tbl : SUBSET Categories, hasP : BOOLEAN,
                     self : SelfShapes, eps : EndpointShapes]
NoRoute == [tbl |-> {}, hasP |-> FALSE, self |-> "none", eps |-> "none"]

\* get_self_url: "url" for a string, None, or "raise" (KeyError on a missing href)
get_self_url(shape) ==
    CASE shape = "no_links" -> None
      [] shape = "no_self" -> None
      [] shape = "dict_href" -> Some("url")
      [] shape = "dict_nohref" -> Some("raise")
      [] shape = "str" -> Some("url")
      [] shape = "list_empty" -> None
      [] shape = "list_href" -> Some("url")
      [] shape = "list_nohref" -> Some("raise")
      [] OTHER -> None

\* analyze_routes: the category of a route by the reference table, "unknown" if absent
analyze_category(tbl) ==
    IF "protected" \in tbl THEN "protected"
    ELSE IF "public-list" \in tbl THEN "public-list"
    ELSE IF "public-dict" \in tbl THEN "public-dict"
    ELSE IF "useless" \in tbl THEN "useless"
    ELSE "unknown"

\* (mutant) every dumper call is a call of dump_route_list
dump_or_skip_always_list(shape, dumper) ==
    LET u == get_self_url(shape) IN
    IF u = Some("raise") THEN "raise"
    ELSE IF u = None THEN "nourl"
    ELSE "list"

\* a dumper call after the self-link lookup collect_data makes before it
dump_or_skip(shape, dumper) ==
    LET u == get_self_url(shape) IN
    IF u = Some("raise") THEN "raise"
    ELSE IF u = None THEN "nourl"
    ELSE dumper

\* (mutant) unknown routes are dumped whatever get_unknown says
route_branch_unknown_always(r, gu) ==
    IF "public-list" \in r.tbl THEN dump_or_skip(r.self, "list")
    ELSE IF "public-dict" \in r.tbl THEN dump_or_skip(r.self, "dict")
    ELSE IF "protected" \in r.tbl THEN "skip"
    ELSE IF "useless" \in r.tbl THEN "skip"
    ELSE IF r.hasP THEN "skip"
    ELSE IF r.eps = "missing" THEN "raise"
    ELSE IF r.eps # "empty" THEN
        LET u == get_self_url(r.self) IN
        IF u = Some("raise") THEN "raise"
        ELSE IF u = None THEN "nourl"
        ELSE IF r.eps = "noargs" THEN "raise"
        ELSE IF r.eps = "paged" THEN "list"
        ELSE "dict"
    ELSE "skip"

\* the branch of collect_data's loop body a route takes:
\* "list" / "dict" (a dumper is called), "skip", "nourl", "raise"
route_branch(r, gu) ==
    IF "public-list" \in r.tbl THEN dump_or_skip(r.self, "list")
    ELSE IF "public-dict" \in r.tbl THEN dump_or_skip(r.self, "dict")
    ELSE IF "protected" \in r.tbl THEN "skip"
    ELSE IF "useless" \in r.tbl THEN "skip"
    ELSE IF r.hasP THEN "skip"
    ELSE IF gu THEN
        IF r.eps = "missing" THEN "raise"
        ELSE IF r.eps # "empty" THEN
            LET u == get_self_url(r.self) IN
            IF u = Some("raise") THEN "raise"
            ELSE IF u = None THEN "nourl"
            ELSE IF r.eps = "noargs" THEN "raise"
            ELSE IF r.eps = "paged" THEN "list"
            ELSE "dict"
        ELSE "skip"
    ELSE "skip"

\* what _test_route reads of a route: marker, "?P<" in the path; segs, the segments
\* of the path ("/wp/v2/posts" has three); digit, a digit in the last of them; the
\* self-link and the endpoints
MaxSegs == 4
TestRoutes == [marker : BOOLEAN, segs : 1..MaxSegs, digit : BOOLEAN,
               self : SelfShapes, eps : EndpointShapes]
NoTestRoute == [marker |-> FALSE, segs |-> 1, digit |-> FALSE,
                self |-> "none", eps |-> "none"]

\* ------------------------------------------------------------ the server
Headers == [k : {"absent", "malformed"}, v : {0}] \cup [k : {"int"}, v : (-1)..MaxPages]
Bodies == [k : {"list"}, n : {0, PageLen}] \cup [k : {"dict", "other", "nonjson"}, n : {0}]
NoHeader == [k |-> "absent", v |-> 0]
NoBody == [k |-> "nonjson", n |-> 0]
ErrorObject == [k |-> "dict", n |-> 0]
Failure(kind) == [kind |-> kind, status |-> 0, hdr |-> NoHeader, body |-> NoBody]
\* every outcome of one requests.get for page p: a response (200 with any headers and
\* body; 204, another status raise_for_status lets through; 400, an error status), a
\* transport failure (timeout, DNS, refused connection, TLS), a user interrupt.
\* Headers vary on page 1 and on later pages between absent and a hint of 1.
Outcomes(p) ==
    [kind : {"resp"}, status : {200},
     hdr : IF p = 1 THEN Headers ELSE {NoHeader, [k |-> "int", v |-> 1]},
     body : Bodies]
    \cup [kind : {"resp"}, status : {204}, hdr : {NoHeader},
          body : {ErrorObject, NoBody, [k |-> "list", n |-> PageLen]}]
    \cup [kind : {"resp"}, status : {400}, hdr : {NoHeader}, body : {ErrorObject, NoBody}]
    \cup {Failure("transport"), Failure("interrupt")}
\* what the history keeps of an outcome
Summary(o) == [kind |-> o.kind, status |-> o.status, body |-> o.body]
NoOutcome == [kind |-> "none", status |-> 0, body |-> NoBody]

\* (mutant) the call to raise_for_status left out
raise_for_status_left_out(status) == FALSE

\* resp.raise_for_status(): HTTPError for a 4xx or 5xx status
raise_for_status(status) == status >= 400
\* the except clause a GET outcome reaches: "RequestException", "KeyboardInterrupt" or None
raised_by(o) ==
    IF o.kind = "interrupt" THEN Some("KeyboardInterrupt")
    ELSE IF o.kind = "transport" THEN Some("RequestException")
    ELSE IF raise_for_status(o.status) THEN Some("RequestException")
    ELSE None

\* ------------------------------------------------------------ dump_route_list
PageRecords(p, n) == [k \in 1..n |-> <<p, k>>]

\* the X-WP-TotalPages header, read on page 1 only; int() of a malformed value is caught
read_total_pages(p, hdr, tp) ==
    IF p = 1 THEN (IF hdr.k = "int" THEN Some(hdr.v) ELSE tp) ELSE tp

\* if total_pages and page >= total_pages
hint_reached(p, tp) == tp # None /\ tp[1] # 0 /\ p >= tp[1]

\* (mutant) while rc <= retry_count
may_attempt_once_more(n, retries) == n <= retries

\* while rc < retry_count
may_attempt(n, retries) == n < retries

\* if rc == retry_count, in the except clause
retries_exhausted(n, retries) == n = retries

\* (mutant) outdata = data in place of outdata.extend(data)
process_page_replacing(p, o, od, tp) ==
    LET tp1 == read_total_pages(p, o.hdr, tp)
        break == [stop |-> TRUE, outdata |-> od, total_pages |-> tp1]
    IN  IF o.status # 200 THEN [stop |-> TRUE, outdata |-> od, total_pages |-> tp]
        ELSE IF o.body.k = "list" /\ o.body.n > 0
        THEN [stop |-> hint_reached(p, tp1),
              outdata |-> PageRecords(p, o.body.n),
              total_pages |-> tp1]
        ELSE break

\* what an accepted response does to the page loop: break (stop) or go on
process_page(p, o, od, tp) ==
    LET tp1 == read_total_pages(p, o.hdr, tp)
        break == [stop |-> TRUE, outdata |-> od, total_pages |-> tp1]
    IN  IF o.status # 200 THEN [stop |-> TRUE, outdata |-> od, total_pages |-> tp]
        ELSE IF o.body.k = "nonjson" THEN break
        ELSE IF o.body.k = "dict" THEN break
        ELSE IF o.body.k = "list" THEN
            IF o.body.n = 0 THEN break
            ELSE [stop |-> hint_reached(p, tp1),
                  outdata |-> od \o PageRecords(p, o.body.n),
                  total_pages |-> tp1]
        ELSE break

\* (mutant) the file is opened only when there are rows to write
write_outfile_unless_empty(fs, name, rows) ==
    IF rows = << >> THEN fs ELSE [fs EXCEPT ![name] = File(rows)]

\* open(outfile, "w") and one line per row
write_outfile(fs, name, rows) == [fs EXCEPT ![name] = File(rows)]

\* the latest GET, numbered within its route and page
next_req(r, p) ==
    [route |-> r, page |-> p,
     n |-> IF req.route = r /\ req.page = p THEN req.n + 1 ELSE 1]

\* one pass of the retry loop: a GET for the current page and all that follows it
\* up to the next GET or the end of the call
dump_route_list_attempt ==
    /\ pc = "list"
    /\ may_attempt(rc, retry_count)
    /\ \E o \in Outcomes(page) :
        LET n == rc + 1
            exc == raised_by(o)
            s == process_page(page, o, outdata, total_pages)
        IN  /\ req' = next_req(idx, page)
            /\ last' = Summary(o)
            /\ IF exc = Some("KeyboardInterrupt") THEN
                   /\ pc' = "dumped" /\ result' = "interrupt" /\ rc' = n
                   /\ UNCHANGED << page, outdata, total_pages, files, got, writes >>
               ELSE IF exc = Some("RequestException") THEN
                   /\ rc' = n
                   /\ IF retries_exhausted(n, retry_count)
                      THEN pc' = "dumped" /\ result' = "return"
                      ELSE UNCHANGED << pc, result >>
                   /\ UNCHANGED << page, outdata, total_pages, files, got, writes >>
               ELSE
                   /\ got' = Append(got, Summary(o))
                   /\ outdata' = s.outdata
                   /\ total_pages' = s.total_pages
                   /\ IF s.stop THEN
                          /\ files' = write_outfile(files, <<idx, "jsonl">>, s.outdata)
                          /\ writes' = writes + 1
                          /\ pc' = "dumped" /\ result' = "return" /\ rc' = n
                          /\ page' = page
                      ELSE
                          /\ page < MaxPages
                          /\ page' = page + 1 /\ rc' = 0
                          /\ UNCHANGED << pc, result, files, writes >>
    /\ UNCHANGED << get_unknown, retry_count, total_routes, idx, routes_processed,
                    routes_skipped, error, branch >>
    /\ UNCHANGED << raised, root, route >>
    /\ UNCHANGED fileVars
    /\ UNCHANGED probeVars
    /\ UNCHANGED batchVars
    /\ UNCHANGED nameVars

\* the retry loop made no pass (retry_count <= 0): resp is None, return
dump_route_list_no_response ==
    /\ pc = "list"
    /\ ~may_attempt(rc, retry_count)
    /\ pc' = "dumped" /\ result' = "return"
    /\ UNCHANGED << get_unknown, retry_count, total_routes, idx, routes_processed,
                    routes_skipped, error, page, rc, outdata, total_pages, files,
                    req, last, got, writes, branch >>
    /\ UNCHANGED << raised, root, route >>
    /\ UNCHANGED fileVars
    /\ UNCHANGED probeVars
    /\ UNCHANGED batchVars
    /\ UNCHANGED nameVars

\* ------------------------------------------------------------ dump_route_dict
\* one GET, no retry: the file is written on 200; a RequestException is logged and raised
dump_route_dict ==
    /\ pc = "dict"
    /\ \E o \in Outcomes(0) :
        LET exc == raised_by(o) IN
        /\ req' = next_req(idx, 0)
        /\ last' = Summary(o)
        /\ pc' = "dumped"
        /\ IF exc = Some("KeyboardInterrupt") THEN
               result' = "interrupt" /\ UNCHANGED << files, writes >>
           ELSE IF exc = Some("RequestException") THEN
               result' = "raise" /\ UNCHANGED << files, writes >>
           ELSE IF o.status = 200 THEN
               /\ result' = "return"
               /\ files' = write_outfile(files, <<idx, "json">>, DictText)
               /\ writes' = writes + 1
           ELSE result' = "return" /\ UNCHANGED << files, writes >>
    /\ UNCHANGED << get_unknown, retry_count, total_routes, idx, routes_processed,
                    routes_skipped, error, page, rc, outdata, total_pages, got,
                    branch >>
    /\ UNCHANGED << raised, root, route >>
    /\ UNCHANGED fileVars
    /\ UNCHANGED probeVars
    /\ UNCHANGED batchVars
    /\ UNCHANGED nameVars

\* ------------------------------------------------------------ collect_data
\* the GET of the API root and the exception collect_data turns each failure into
\* an exception as its caller sees it: the type, the status_code attribute (0: None)
\* and whether the message carries a "Suggestion:" line
Exception(type, status_code, suggestion) ==
    [type |-> type, status_code |-> status_code, suggestion |-> suggestion]
NoException == Exception("none", 0, FALSE)

\* (mutant) a suggestion for every status code and for none
APIError_always_suggests(status_code) == Exception("APIError", status_code, TRUE)

\* APIError(url, status_code, message): the suggestion depends on the status code
APIError(status_code) ==
    Exception("APIError", status_code, status_code \in {404, 403, 500, 401})
\* SSLVerificationError(url, reason)
SSLVerificationError == Exception("SSLVerificationError", 0, TRUE)
\* an exception of Python that no except clause of collect_data turns into one of wparc's
Uncaught(type) == Exception(type, 0, FALSE)

\* the statuses raise_for_status turns into HTTPError, by the suggestion they get
RootStatuses == {401, 403, 404, 500, 503}
RootOutcome(k, status) == [k |-> k, status |-> status]
NoRoot == RootOutcome("none", 0)
\* what the GET of the root meets: "ok" (an object with routes); "ssl", "http",
\* "transport" (SSLError, HTTPError, another RequestException); "badjson" (json()
\* raises ValueError); "noroutes" (a JSON object without the key routes); "notobject"
\* (a JSON list, string, number or null); "interrupt"
RootOutcomes ==
    {RootOutcome(k, 0) : k \in {"ok", "ssl", "transport", "badjson", "noroutes",
                                "notobject", "interrupt"}}
    \cup {RootOutcome("http", s) : s \in RootStatuses}

\* the exception collect_data ends with: the except clauses around the GET, and
\* wpjson["routes"] after them
root_exception(o) ==
    CASE o.k = "ssl" -> SSLVerificationError
      [] o.k = "http" -> APIError(o.status)
      [] o.k = "transport" -> APIError(0)
      [] o.k = "badjson" -> APIError(0)
      [] o.k = "noroutes" -> Uncaught("KeyError")
      [] o.k = "notobject" -> Uncaught("TypeError")
      [] o.k = "interrupt" -> Uncaught("KeyboardInterrupt")
      [] OTHER -> NoException
root_error(o) == IF o.k = "ok" THEN None ELSE Some(root_exception(o).type)

collect_data_root ==
    /\ pc = "start"
    /\ \E o \in RootOutcomes :
        /\ root' = o
        /\ raised' = root_exception(o)
        /\ IF o.k = "ok"
           THEN /\ pc' = "loop"
                /\ total_routes' \in 0..MaxRoutes
                /\ UNCHANGED error
           ELSE /\ pc' = "failed"
                /\ error' = root_error(o)
                /\ UNCHANGED total_routes
    /\ UNCHANGED << get_unknown, retry_count, idx, routes_processed, routes_skipped,
                    result, page, rc, outdata, total_pages, files, req, last, got,
                    writes, branch, route >>
    /\ UNCHANGED fileVars
    /\ UNCHANGED probeVars
    /\ UNCHANGED batchVars
    /\ UNCHANGED nameVars

\* (mutant) the continue after a missing self-link, without the increment
counter_of_branch_nourl_uncounted(b) ==
    CASE b = "skip" -> "skipped"
      [] b = "nourl" -> "none"
      [] b = "raise" -> "skipped"

\* the counter a route that called no dumper increments; an exception of the
\* loop body ("raise") reaches except Exception
counter_of_branch(b) ==
    CASE b = "skip" -> "skipped"
      [] b = "nourl" -> "skipped"
      [] b = "raise" -> "skipped"

\* (mutant) no except clause around the loop body
counter_of_result_uncaught(r) ==
    CASE r = "return" -> "processed"
      [] r = "raise" -> "propagate"
      [] r = "interrupt" -> "propagate"

\* (mutant) except BaseException
counter_of_result_catch_all(r) ==
    CASE r = "return" -> "processed"
      [] r = "raise" -> "skipped"
      [] r = "interrupt" -> "skipped"

\* what collect_data does when the dumper it called ends: the statement after the
\* call, except Exception, or neither (KeyboardInterrupt is no Exception)
counter_of_result(r) ==
    CASE r = "return" -> "processed"
      [] r = "raise" -> "skipped"
      [] r = "interrupt" -> "propagate"

\* the for loop takes the next route and runs the loop body up to a dumper call;
\* keep: the session keeps the descriptor of the route in the history
collect_data_loop_body(keep) ==
    /\ pc = "loop"
    /\ idx < total_routes
    /\ idx' = idx + 1
    /\ \E r \in RouteDescriptors :
        LET b == route_branch(r, get_unknown) IN
        /\ branch' = b
        /\ route' = IF keep THEN r ELSE NoRoute
        /\ IF b \in {"list", "dict"}
           THEN /\ pc' = b
                /\ UNCHANGED << routes_processed, routes_skipped >>
           ELSE /\ pc' = "loop"
                /\ routes_skipped' =
                     routes_skipped + (IF counter_of_branch(b) = "skipped" THEN 1 ELSE 0)
                /\ routes_processed' =
                     routes_processed + (IF counter_of_branch(b) = "processed" THEN 1 ELSE 0)
    /\ result' = "none"
    /\ UNCHANGED << get_unknown, retry_count, total_routes, error, files, req, last,
                    page, rc, outdata, total_pages, got, writes, raised, root >>
    /\ UNCHANGED fileVars
    /\ UNCHANGED probeVars
    /\ UNCHANGED batchVars
    /\ UNCHANGED nameVars

collect_data_route == collect_data_loop_body(FALSE)
\* the same step in a session that keeps the descriptors
collect_data_route_kept == collect_data_loop_body(TRUE)

\* the dumper has ended
collect_data_after_dump ==
    /\ pc = "dumped"
    /\ LET c == counter_of_result(result) IN
        /\ routes_processed' = routes_processed + (IF c = "processed" THEN 1 ELSE 0)
        /\ routes_skipped' = routes_skipped + (IF c = "skipped" THEN 1 ELSE 0)
        /\ IF c = "propagate"
           THEN pc' = "interrupted" /\ error' = Some("KeyboardInterrupt")
           ELSE pc' = "loop" /\ UNCHANGED error
    \* the dumper's frame is gone
    /\ page' = 1 /\ rc' = 0 /\ outdata' = << >> /\ total_pages' = None
    /\ got' = << >> /\ writes' = 0 /\ last' = NoOutcome
    /\ UNCHANGED << get_unknown, retry_count, total_routes, idx, result, files, req,
                    branch >>
    /\ UNCHANGED << raised, root, route >>
    /\ UNCHANGED fileVars
    /\ UNCHANGED probeVars
    /\ UNCHANGED batchVars
    /\ UNCHANGED nameVars

\* the loop is over: the statistics are returned
collect_data_return ==
    /\ pc = "loop"
    /\ idx = total_routes
    /\ pc' = "done"
    /\ UNCHANGED << get_unknown, retry_count, total_routes, idx, routes_processed,
                    routes_skipped, error, result, page, rc, outdata, total_pages,
                    files, req, last, got, writes, branch >>
    /\ UNCHANGED << raised, root, route >>
    /\ UNCHANGED fileVars
    /\ UNCHANGED probeVars
    /\ UNCHANGED batchVars
    /\ UNCHANGED nameVars


\* ------------------------------------------------------------ media download
MaxUrls == 2        \* lines of the manifest
MaxWorkers == 2     \* workers ranges over 1..MaxWorkers

\* a URL is its host and its path; two hosts serve the path /a
Url(h, p) == [host |-> h, path |-> p]
BadUrl == Url("[bad", "/a")
Urls == {Url("h1", "/a"), Url("h2", "/a"), Url("h1", "/b"), BadUrl}
Paths == {"files/a", "files/b"}

\* a line of the manifest: "url" (a JSON object with source_url), "blank", "notjson",
\* "nokey" (an object without source_url), "array" (a JSON array), "scalar" (a number,
\* null, true or false)
NoUrl == Url("", "")
UrlLine(u) == [k |-> "url", url |-> u]
MalformedLines == {[k |-> kind, url |-> NoUrl] :
                      kind \in {"blank", "notjson", "nokey", "array", "scalar"}}
Lines == {UrlLine(u) : u \in Urls} \cup MalformedLines

\* "source_url" in obj raises TypeError for a value that is not a container
line_raises(l) == l.k = "scalar"

\* list(_read_media_urls(media_file)): the source_url values in file order, or the
\* exception that ends the read
RECURSIVE read_media_urls(_)
read_media_urls(ls) ==
    IF ls = << >> THEN [urls |-> << >>, raised |-> FALSE]
    ELSE IF line_raises(Head(ls)) THEN [urls |-> << >>, raised |-> TRUE]
    ELSE LET rest == read_media_urls(Tail(ls)) IN
         IF Head(ls).k = "url" /\ ~rest.raised
         THEN [rest EXCEPT !.urls = << Head(ls).url >> \o @]
         ELSE rest

\* urlparse(url): ValueError ("Invalid IPv6 URL") for an unbalanced bracket in the host
urlparse_raises(u) == u.host = "[bad"
\* os.path.join(domain, "files", urlparse(url).path.lstrip("/"))
filepath(u) == IF u.path = "/a" THEN "files/a" ELSE "files/b"

\* _load_checkpoint: the empty set for a missing or unreadable file
\* the checkpoint file: "missing"; "corrupt" (text that is not JSON);
\* "nonobject" (a JSON value that is not an object); "nokey" (an object without
\* downloaded_files); "notalist" (downloaded_files is a number or null); "ok" (an
\* object whose downloaded_files is the list of paths)
CheckpointFile(st, ps) == [st |-> st, paths |-> ps]
CheckpointFiles ==
    {CheckpointFile(st, {}) : st \in {"missing", "corrupt", "nonobject", "nokey", "notalist"}}
        \cup {CheckpointFile("ok", c) : c \in SUBSET Paths}

\* the exception _load_checkpoint ends with: data.get on a value that is not an
\* object, set() of a value that is not iterable; None when it returns
load_checkpoint_error(ck) ==
    IF ck.st = "nonobject" THEN Some("AttributeError")
    ELSE IF ck.st = "notalist" THEN Some("TypeError")
    ELSE None
load_checkpoint(ck) == IF ck.st = "ok" THEN ck.paths ELSE {}

\* os.path.exists(filepath)
exists_never(path, dsk) == FALSE
exists(path, dsk) == path \in dsk

satisfied_needs_both(path, ckpt, dsk) == path \in ckpt /\ path \in dsk
\* filepath in checkpoint or os.path.exists(filepath)
satisfied(path, ckpt, dsk) == path \in ckpt \/ exists(path, dsk)

\* the filter loop of collect_files: the URLs left, the number skipped, and whether
\* urlparse raised on the way
RECURSIVE filter_urls(_, _, _)
filter_urls(us, ckpt, dsk) ==
    IF us = << >> THEN [urls |-> << >>, skipped |-> 0, raised |-> FALSE]
    ELSE IF urlparse_raises(Head(us)) THEN [urls |-> << >>, skipped |-> 0, raised |-> TRUE]
    ELSE LET rest == filter_urls(Tail(us), ckpt, dsk) IN
         IF satisfied(filepath(Head(us)), ckpt, dsk)
         THEN [rest EXCEPT !.skipped = @ + 1]
         ELSE [rest EXCEPT !.urls = << Head(us) >> \o @]

\* one future: st is "queued", "running" (get_file is to be called), "requesting"
\* (get_file found no file and makes its GET), "streaming"
\* (get_file is writing the file), "fetched" (get_file has returned), "done"; res is what future.result() gives: "ok"
\* (url, True, None), "fail" (url, False, message), "exception"; why: the cause;
\* net: a GET was made; taken: as_completed has yielded it
Task(u) == [url |-> u, st |-> "queued", res |-> "none", why |-> "none",
            net |-> FALSE, taken |-> FALSE]
Running(ts) ==
    {i \in 1..Len(ts) : ts[i].st \in {"running", "requesting", "streaming", "fetched"}}
AllDone(ts) == \A i \in 1..Len(ts) : ts[i].st = "done"

\* the sequential head of collect_files, up to the submission of the tasks
\* the exception that ends collect_files before the manifest is read: the manifest
\* must exist, then the checkpoint is loaded when resuming
start_error_checkpoint_first(m, res, ck) ==
    IF res /\ load_checkpoint_error(ck) # None THEN load_checkpoint_error(ck)
    ELSE IF m = None THEN Some("MediaFileNotFoundError")
    ELSE None
start_error(m, res, ck) ==
    IF m = None THEN Some("MediaFileNotFoundError")
    ELSE IF res THEN load_checkpoint_error(ck)
    ELSE None

collect_files_start ==
    /\ fpc = "start"
    /\ IF start_error(manifest, resume, ckfile) # None THEN
           /\ fpc' = "raised" /\ ferror' = start_error(manifest, resume, ckfile)
           /\ UNCHANGED << checkpoint, tasks, skipped, total >>
       ELSE
           LET ckpt == IF resume THEN load_checkpoint(ckfile) ELSE {}
               read == read_media_urls(manifest[1])
               urls == read.urls
               f == IF resume /\ ckpt # {}
                    THEN filter_urls(urls, ckpt, disk)
                    ELSE [urls |-> urls, skipped |-> 0, raised |-> FALSE]
           IN  /\ checkpoint' = ckpt
               /\ total' = Len(urls)
               /\ IF read.raised THEN
                      /\ fpc' = "raised" /\ ferror' = Some("TypeError")
                      /\ UNCHANGED << tasks, skipped >>
                  ELSE IF Len(urls) = 0 THEN
                      /\ fpc' = "done"
                      /\ UNCHANGED << tasks, skipped, ferror >>
                  ELSE IF f.raised THEN
                      /\ fpc' = "raised" /\ ferror' = Some("ValueError")
                      /\ UNCHANGED << tasks, skipped >>
                  ELSE
                      /\ skipped' = f.skipped
                      /\ tasks' = [i \in 1..Len(f.urls) |-> Task(f.urls[i])]
                      /\ fpc' = IF f.urls = << >> THEN "done" ELSE "pool"
                      /\ UNCHANGED ferror
    /\ UNCHANGED << resume, workers, manifest, ckfile, disk, downloaded, failed, saves >>
    /\ UNCHANGED << run, first >>
    /\ UNCHANGED dataVars
    /\ UNCHANGED probeVars
    /\ UNCHANGED batchVars
    /\ UNCHANGED nameVars

\* what _download_file_task does before get_file: urlparse and the path (outside the
\* try), then the checkpoint and the disk
task_begin(t, ckpt, dsk) ==
    IF urlparse_raises(t.url)
    THEN [t EXCEPT !.st = "done", !.res = "exception", !.why = "ValueError"]
    ELSE IF satisfied(filepath(t.url), ckpt, dsk)
    THEN [t EXCEPT !.st = "done", !.res = "ok", !.why = "satisfied"]
    ELSE [t EXCEPT !.st = "running"]

\* a worker takes the next queued task
download_file_task_begin(i) ==
    /\ fpc \in {"pool", "unwind"}
    /\ tasks[i].st = "queued"
    /\ \A j \in 1..(i - 1) : tasks[j].st # "queued"
    /\ Cardinality(Running(tasks)) < workers
    /\ tasks' = [tasks EXCEPT ![i] = task_begin(tasks[i], checkpoint, disk)]
    /\ UNCHANGED << fpc, resume, workers, manifest, ckfile, disk, checkpoint,
                    downloaded, failed, skipped, total, ferror, saves >>
    /\ UNCHANGED << run, first >>
    /\ UNCHANGED dataVars
    /\ UNCHANGED probeVars
    /\ UNCHANGED batchVars
    /\ UNCHANGED nameVars

\* get_file without aria2: "ok"; "transport" (a RequestException before the file is
\* opened: TLS, timeout, connection, HTTP status; the except clause for SSLError
\* and the one for RequestException differ in the message alone); "midstream" (a
\* RequestException while the body is streamed into the opened file); "oserror" (any
\* other exception: makedirs or open fails), which get_file does not catch
GetFileOutcomes == {"ok", "transport", "midstream", "oserror"}

\* the result get_file gives _download_file_task, whose except Exception turns an
\* exception into a failure result
task_result_always_ok(o) == "ok"
task_result(o) == IF o = "ok" THEN "ok" ELSE "fail"

\* what the request of get_file comes to: the response is there and the file has been
\* opened for writing ("opened"), or one of the failures before that
RequestOutcomes == {"opened", "transport", "oserror"}
\* what the streaming of the body into the opened file comes to
StreamOutcomes == {"ok", "midstream"}

\* the head of get_file: os.path.exists(filename) ends the call, else the GET is next
download_file_task_get_file(i) ==
    /\ fpc \in {"pool", "unwind"}
    /\ tasks[i].st = "running"
    /\ tasks' = IF exists(filepath(tasks[i].url), disk)
                THEN [tasks EXCEPT ![i].st = "fetched", ![i].res = "ok",
                                   ![i].why = "exists"]
                ELSE [tasks EXCEPT ![i].st = "requesting"]
    /\ UNCHANGED << fpc, resume, workers, manifest, ckfile, disk, checkpoint,
                    downloaded, failed, skipped, total, ferror, saves >>
    /\ UNCHANGED << run, first >>
    /\ UNCHANGED dataVars
    /\ UNCHANGED probeVars
    /\ UNCHANGED batchVars
    /\ UNCHANGED nameVars

\* get_file from the GET to open(filename, "wb"): the file exists from here on
get_file_request(i) ==
    /\ fpc \in {"pool", "unwind"}
    /\ tasks[i].st = "requesting"
    /\ \E o \in RequestOutcomes :
           IF o = "opened" THEN
               /\ tasks' = [tasks EXCEPT ![i].st = "streaming", ![i].net = TRUE]
               /\ disk' = disk \cup {filepath(tasks[i].url)}
           ELSE
               /\ tasks' = [tasks EXCEPT ![i].st = "fetched", ![i].res = task_result(o),
                                         ![i].why = o, ![i].net = (o # "oserror")]
               /\ UNCHANGED disk
    /\ UNCHANGED << fpc, resume, workers, manifest, ckfile, checkpoint,
                    downloaded, failed, skipped, total, ferror, saves >>
    /\ UNCHANGED << run, first >>
    /\ UNCHANGED dataVars
    /\ UNCHANGED probeVars
    /\ UNCHANGED batchVars
    /\ UNCHANGED nameVars

\* get_file from the first chunk to its return: a failure leaves the file as written
\* so far
get_file_stream(i) ==
    /\ fpc \in {"pool", "unwind"}
    /\ tasks[i].st = "streaming"
    /\ \E o \in StreamOutcomes :
           tasks' = [tasks EXCEPT ![i].st = "fetched", ![i].res = task_result(o),
                                  ![i].why = o]
    /\ UNCHANGED << fpc, resume, workers, manifest, ckfile, disk, checkpoint,
                    downloaded, failed, skipped, total, ferror, saves >>
    /\ UNCHANGED << run, first >>
    /\ UNCHANGED dataVars
    /\ UNCHANGED probeVars
    /\ UNCHANGED batchVars
    /\ UNCHANGED nameVars

\* if result[1]: checkpoint.add(filepath); return result
download_file_task_end(i) ==
    /\ fpc \in {"pool", "unwind"}
    /\ tasks[i].st = "fetched"
    /\ checkpoint' = IF tasks[i].res = "ok"
                     THEN checkpoint \cup {filepath(tasks[i].url)} ELSE checkpoint
    /\ tasks' = [tasks EXCEPT ![i].st = "done"]
    /\ UNCHANGED << fpc, resume, workers, manifest, ckfile, disk,
                    downloaded, failed, skipped, total, ferror, saves >>
    /\ UNCHANGED << run, first >>
    /\ UNCHANGED dataVars
    /\ UNCHANGED probeVars
    /\ UNCHANGED batchVars
    /\ UNCHANGED nameVars

collect_files_result_forgets_failures(i) ==
    /\ fpc = "pool"
    /\ tasks[i].st = "done" /\ ~tasks[i].taken
    /\ tasks' = [tasks EXCEPT ![i].taken = TRUE]
    /\ IF tasks[i].res = "exception" THEN
           /\ fpc' = "unwind" /\ ferror' = Some(tasks[i].why)
           /\ UNCHANGED << downloaded, failed >>
       ELSE
           /\ downloaded' = downloaded + (IF tasks[i].res = "ok" THEN 1 ELSE 0)
           /\ UNCHANGED << failed, fpc, ferror >>
    /\ UNCHANGED << resume, workers, manifest, ckfile, disk, checkpoint, skipped,
                    total, saves >>
    /\ UNCHANGED << run, first >>
    /\ UNCHANGED dataVars
    /\ UNCHANGED probeVars
    /\ UNCHANGED batchVars
    /\ UNCHANGED nameVars

\* for future in as_completed(...): future.result() re-raises the task's exception
collect_files_result(i) ==
    /\ fpc = "pool"
    /\ tasks[i].st = "done" /\ ~tasks[i].taken
    /\ tasks' = [tasks EXCEPT ![i].taken = TRUE]
    /\ IF tasks[i].res = "exception" THEN
           /\ fpc' = "unwind" /\ ferror' = Some(tasks[i].why)
           /\ UNCHANGED << downloaded, failed >>
       ELSE
           /\ downloaded' = downloaded + (IF tasks[i].res = "ok" THEN 1 ELSE 0)
           /\ failed' = failed + (IF tasks[i].res = "fail" THEN 1 ELSE 0)
           /\ UNCHANGED << fpc, ferror >>
    /\ UNCHANGED << resume, workers, manifest, ckfile, disk, checkpoint, skipped,
                    total, saves >>
    /\ UNCHANGED << run, first >>
    /\ UNCHANGED dataVars
    /\ UNCHANGED probeVars
    /\ UNCHANGED batchVars
    /\ UNCHANGED nameVars

\* the with block is left by the exception: shutdown(wait=True) lets every task
\* end, then the exception leaves collect_files
collect_files_unwind ==
    /\ fpc = "unwind"
    /\ AllDone(tasks)
    /\ fpc' = "raised"
    /\ UNCHANGED << resume, workers, manifest, ckfile, disk, checkpoint, tasks,
                    downloaded, failed, skipped, total, ferror, saves >>
    /\ UNCHANGED << run, first >>
    /\ UNCHANGED dataVars
    /\ UNCHANGED probeVars
    /\ UNCHANGED batchVars
    /\ UNCHANGED nameVars

\* _save_checkpoint
save_checkpoint(ck, ckpt) == CheckpointFile("ok", ckpt)

\* every future has been yielded: the checkpoint is saved when resuming
collect_files_save ==
    /\ fpc = "pool"
    /\ \A i \in 1..Len(tasks) : tasks[i].taken
    /\ IF resume
       THEN ckfile' = save_checkpoint(ckfile, checkpoint) /\ saves' = saves + 1
       ELSE UNCHANGED << ckfile, saves >>
    /\ fpc' = "saved"
    /\ UNCHANGED << resume, workers, manifest, disk, checkpoint, tasks,
                    downloaded, failed, skipped, total, ferror >>
    /\ UNCHANGED << run, first >>
    /\ UNCHANGED dataVars
    /\ UNCHANGED probeVars
    /\ UNCHANGED batchVars
    /\ UNCHANGED nameVars

\* the statistics are returned
collect_files_return ==
    /\ fpc = "saved"
    /\ fpc' = "done"
    /\ UNCHANGED << resume, workers, manifest, ckfile, disk, checkpoint, tasks,
                    downloaded, failed, skipped, total, ferror, saves >>
    /\ UNCHANGED << run, first >>
    /\ UNCHANGED dataVars
    /\ UNCHANGED probeVars
    /\ UNCHANGED batchVars
    /\ UNCHANGED nameVars

\* collect_files is called again with the same arguments, over what the first call
\* left on disk
NoFirst == [failed |-> FALSE, fetched |-> FALSE]
collect_files_again ==
    /\ fpc \in {"done", "raised"}
    /\ run = 1
    /\ run' = 2
    /\ first' = [failed |-> \E i \in 1..Len(tasks) : tasks[i].res = "fail",
                 fetched |-> \E i \in 1..Len(tasks) : tasks[i].net]
    /\ fpc' = "start"
    /\ checkpoint' = {} /\ tasks' = << >>
    /\ downloaded' = 0 /\ failed' = 0 /\ skipped' = 0 /\ total' = 0
    /\ ferror' = None /\ saves' = 0
    /\ UNCHANGED << resume, workers, manifest, ckfile, disk >>
    /\ UNCHANGED dataVars
    /\ UNCHANGED probeVars
    /\ UNCHANGED batchVars
    /\ UNCHANGED nameVars

\* ------------------------------------------------------------ _test_route
\* what a GET of _test_route meets: a response (its status and, for 200, its body:
\* a list, an object with "id", another object, another JSON value, no JSON) or a
\* RequestException
ProbeOutcomes ==
    [k : {"resp"}, status : {200}, body : {"list", "item", "dict", "other", "nonjson"}]
    \cup [k : {"resp"}, status : {401, 403, 404}, body : {"nonjson"}]
    \cup [k : {"transport"}, status : {0}, body : {"nonjson"}]
\* a GET in the history: at "paged" (the probe with per_page=1&page=1) or "plain"
Probe(at, o) == [at |-> at, k |-> o.k, status |-> o.status, body |-> o.body]

\* args = endpoint.get("args", {}) of the first endpoint
args_is_dict(eps) == eps \in {"noargs", "paged", "plain"}
args_paged(eps) == eps = "paged"

\* the way to the first GET: "useless" (regex marker), "none" (no endpoint, or no
\* self-link), "raise" (get_self_url raises), "paged" or "plain" (the GET to make)
test_route_begins(t) ==
    IF t.marker THEN "useless"
    ELSE IF t.eps \in {"missing", "empty"} THEN "none"
    ELSE LET u == get_self_url(t.self) IN
         IF u = Some("raise") THEN "raise"
         ELSE IF u = None THEN "none"
         ELSE IF args_paged(t.eps) THEN "paged"
         ELSE "plain"

\* (mutant) the paged probe takes 401 alone for a protected route
paged_verdict_401_only(o) ==
    IF o.k = "resp" /\ o.status = 401 THEN Some("protected")
    ELSE IF o.k = "resp" /\ o.status = 200 /\ o.body = "list" THEN Some("public-list")
    ELSE None

\* the paged probe: the category it returns, or None (the plain GET follows)
paged_verdict(o) ==
    IF o.k = "resp" /\ o.status \in {401, 403} THEN Some("protected")
    ELSE IF o.k = "resp" /\ o.status = 200 /\ o.body = "list" THEN Some("public-list")
    ELSE None

\* (mutant) the fallback gives public-dict only for a route that declares an argument
fallback_needs_an_argument(eps) ==
    IF args_paged(eps) THEN Some("public-list")
    ELSE IF eps = "plain" THEN Some("public-dict")
    ELSE None

\* except RequestException around the plain GET: the category by the endpoint definition
fallback(eps) ==
    IF args_is_dict(eps) /\ args_paged(eps) THEN Some("public-list")
    ELSE IF args_is_dict(eps) THEN Some("public-dict")
    ELSE None

\* len(route.split("/")) of a route, which starts with "/": the empty string before
\* the first slash is counted with the segments
split_len(t) == t.segs + 1
\* any(char.isdigit() for char in route.split("/")[-1]) and len(route.split("/")) > 3
itemlike(t) == t.digit /\ split_len(t) > 3

\* the plain GET: the category _test_route returns after it
plain_verdict(t, o) ==
    IF o.k = "transport" THEN fallback(t.eps)
    ELSE IF o.status \in {401, 403} THEN Some("protected")
    ELSE IF itemlike(t) /\ o.status = 200 /\ o.body = "item" THEN Some("useless")
    ELSE IF o.status = 200 /\ o.body = "list" THEN Some("public-list")
    ELSE IF o.status = 200 /\ o.body \in {"dict", "item"} THEN Some("public-dict")
    ELSE None

\* the call up to its first GET
test_route_begin ==
    /\ tpc = "start"
    /\ LET b == test_route_begins(troute) IN
        /\ tpc' = (CASE b = "useless" -> "returned"
                     [] b = "none" -> "returned"
                     [] b = "raise" -> "raised"
                     [] OTHER -> b)
        /\ category' = IF b = "useless" THEN Some("useless") ELSE None
    /\ UNCHANGED << troute, probes, tgets >>
    /\ UNCHANGED dataVars
    /\ UNCHANGED fileVars
    /\ UNCHANGED batchVars
    /\ UNCHANGED nameVars

\* the probe of a route that declares page and per_page
test_route_paged ==
    /\ tpc = "paged"
    /\ \E o \in ProbeOutcomes :
        /\ probes' = Append(probes, Probe("paged", o))
        /\ tgets' = tgets + 1
        /\ category' = paged_verdict(o)
        /\ tpc' = IF paged_verdict(o) = None THEN "plain" ELSE "returned"
    /\ UNCHANGED troute
    /\ UNCHANGED dataVars
    /\ UNCHANGED fileVars
    /\ UNCHANGED batchVars
    /\ UNCHANGED nameVars

\* the GET of the self-link and the return
test_route_plain ==
    /\ tpc = "plain"
    /\ \E o \in ProbeOutcomes :
        /\ probes' = Append(probes, Probe("plain", o))
        /\ tgets' = tgets + 1
        /\ category' = plain_verdict(troute, o)
        /\ tpc' = "returned"
    /\ UNCHANGED troute
    /\ UNCHANGED dataVars
    /\ UNCHANGED fileVars
    /\ UNCHANGED batchVars
    /\ UNCHANGED nameVars

\* ------------------------------------------------------------ test_unknown_routes
MaxUnknown == 2     \* unknown routes handed to the batch

\* the list a route is appended to: its category, or useless when _test_route
\* returned None (or a string that is no key of categorized)
list_of_category(c) ==
    IF c # None /\ c[1] \in Categories THEN c ELSE Some("useless")

\* the for loop takes the next unknown route: continue when the root document does
\* not hold it, else the call of _test_route
test_unknown_routes_next ==
    /\ bpc = "loop" /\ tpc = "idle"
    /\ bi < unknown
    /\ bi' = bi + 1
    /\ \E here \in BOOLEAN :
        IF here
        THEN /\ present' = present \cup {bi + 1}
             /\ troute' \in TestRoutes
             /\ tpc' = "start"
        ELSE UNCHANGED << present, troute, tpc >>
    /\ UNCHANGED << bpc, unknown, categorized, probes, category, tgets >>
    /\ UNCHANGED dataVars
    /\ UNCHANGED fileVars
    /\ UNCHANGED nameVars

\* _test_route has returned: the route is appended to one list
test_unknown_routes_append ==
    /\ bpc = "loop" /\ tpc = "returned"
    /\ LET l == list_of_category(category) IN
        categorized' = IF l = None THEN categorized
                       ELSE [categorized EXCEPT ![l[1]] = Append(@, bi)]
    \* the frame of _test_route is gone
    /\ tpc' = "idle" /\ troute' = NoTestRoute /\ probes' = << >>
    /\ category' = None /\ tgets' = 0
    /\ UNCHANGED << bpc, unknown, bi, present >>
    /\ UNCHANGED dataVars
    /\ UNCHANGED fileVars
    /\ UNCHANGED nameVars

\* _test_route has raised: no except clause, the exception ends the batch
test_unknown_routes_raise ==
    /\ bpc = "loop" /\ tpc = "raised"
    /\ bpc' = "raised"
    /\ UNCHANGED << unknown, bi, present, categorized >>
    /\ UNCHANGED probeVars
    /\ UNCHANGED dataVars
    /\ UNCHANGED fileVars
    /\ UNCHANGED nameVars

\* the loop is over: categorized is returned
test_unknown_routes_return ==
    /\ bpc = "loop" /\ tpc = "idle"
    /\ bi = unknown
    /\ bpc' = "returned"
    /\ UNCHANGED << unknown, bi, present, categorized >>
    /\ UNCHANGED probeVars
    /\ UNCHANGED dataVars
    /\ UNCHANGED fileVars
    /\ UNCHANGED nameVars

\* ------------------------------------------------------------ output file names
\* str.lstrip, str.rstrip and str.strip with one character; str.replace of one
\* character by another
RECURSIVE lstrip(_, _)
lstrip(s, c) == IF s # << >> /\ Head(s) = c THEN lstrip(Tail(s), c) ELSE s
RECURSIVE rstrip(_, _)
rstrip(s, c) ==
    IF s # << >> /\ s[Len(s)] = c THEN rstrip(SubSeq(s, 1, Len(s) - 1), c) ELSE s
strip(s, c) == rstrip(lstrip(s, c), c)
replace(s, old, new) == [i \in 1..Len(s) |-> IF s[i] = old THEN new ELSE s[i]]

\* outfile of dump_route_list and of dump_route_dict, inside filepath
outfile_list(r) == [stem |-> replace(strip(r, "/"), "/", "_"), ext |-> ".jsonl"]
outfile_dict(r) == [stem |-> replace(strip(r, "/"), "/", "_"), ext |-> ".json"]

\* for route in allroutes: the routes are taken in the order of the document, which
\* is any order; the route goes to dump_route_list, which writes outfile
collect_data_writes_list(r) ==
    /\ npc = "loop"
    /\ r \in allroutes \ taken
    /\ taken' = taken \cup {r}
    /\ outfiles' = outfiles \cup {[file |-> outfile_list(r), route |-> r]}
    /\ UNCHANGED << npc, allroutes >>
    /\ UNCHANGED dataVars
    /\ UNCHANGED fileVars
    /\ UNCHANGED probeVars
    /\ UNCHANGED batchVars

\* the route goes to dump_route_dict, which writes outfile
collect_data_writes_dict(r) ==
    /\ npc = "loop"
    /\ r \in allroutes \ taken
    /\ taken' = taken \cup {r}
    /\ outfiles' = outfiles \cup {[file |-> outfile_dict(r), route |-> r]}
    /\ UNCHANGED << npc, allroutes >>
    /\ UNCHANGED dataVars
    /\ UNCHANGED fileVars
    /\ UNCHANGED probeVars
    /\ UNCHANGED batchVars

\* the route is skipped, or its dumper ends without a file
collect_data_writes_nothing(r) ==
    /\ npc = "loop"
    /\ r \in allroutes \ taken
    /\ taken' = taken \cup {r}
    /\ UNCHANGED << npc, allroutes, outfiles >>
    /\ UNCHANGED dataVars
    /\ UNCHANGED fileVars
    /\ UNCHANGED probeVars
    /\ UNCHANGED batchVars

\* the loop is over
collect_data_loop_over ==
    /\ npc = "loop"
    /\ taken = allroutes
    /\ npc' = "done"
    /\ UNCHANGED << allroutes, taken, outfiles >>
    /\ UNCHANGED dataVars
    /\ UNCHANGED fileVars
    /\ UNCHANGED probeVars
    /\ UNCHANGED batchVars

\* ------------------------------------------------------------ specification
vars == << dataVars, fileVars, probeVars, batchVars, nameVars >>

\* no session is writing output files
NamesIdle == npc = "idle" /\ allroutes = {} /\ taken = {} /\ outfiles = {}

\* test_unknown_routes is not running
BatchIdle ==
    /\ bpc = "idle" /\ unknown = 0 /\ bi = 0 /\ present = {}
    /\ categorized = [c \in Categories |-> << >>]

\* _test_route is not running, nor the batch that calls it
ProbeIdle ==
    /\ tpc = "idle" /\ troute = NoTestRoute /\ probes = << >>
    /\ category = None /\ tgets = 0
    /\ BatchIdle

\* collect_files is not running
FilesIdle ==
    /\ fpc = "idle" /\ resume = FALSE /\ workers = 1 /\ manifest = None
    /\ ckfile = CheckpointFile("missing", {}) /\ disk = {} /\ checkpoint = {} /\ tasks = << >>
    /\ downloaded = 0 /\ failed = 0 /\ skipped = 0 /\ total = 0
    /\ ferror = None /\ saves = 0 /\ run = 1 /\ first = NoFirst

\* collect_data is not running
DataIdle ==
    /\ pc = "idle" /\ get_unknown = FALSE /\ retry_count = 0
    /\ total_routes = 0 /\ idx = 0 /\ routes_processed = 0 /\ routes_skipped = 0
    /\ error = None /\ result = "none"
    /\ page = 1 /\ rc = 0 /\ outdata = << >> /\ total_pages = None
    /\ files = [f \in FileNames |-> NoFile]
    /\ req = [route |-> 0, page |-> 0, n |-> 0]
    /\ last = NoOutcome /\ got = << >> /\ writes = 0 /\ branch = "none"
    /\ raised = NoException /\ root = NoRoot /\ route = NoRoute

Init ==
    /\ NamesIdle
    /\ pc = "start"
    /\ get_unknown \in BOOLEAN
    /\ retry_count \in 0..MaxRetry
    /\ total_routes = 0
    /\ idx = 0
    /\ routes_processed = 0
    /\ routes_skipped = 0
    /\ error = None
    /\ result = "none"
    /\ page = 1 /\ rc = 0 /\ outdata = << >> /\ total_pages = None
    /\ files \in {[f \in FileNames |-> NoFile], [f \in FileNames |-> StaleFile]}
    /\ req = [route |-> 0, page |-> 0, n |-> 0]
    /\ last = NoOutcome
    /\ got = << >>
    /\ writes = 0
    /\ branch = "none"
    /\ raised = NoException /\ root = NoRoot /\ route = NoRoute
    /\ FilesIdle
    /\ ProbeIdle

Next ==
    \/ collect_data_root
    \/ collect_data_route
    \/ dump_route_list_attempt
    \/ dump_route_list_no_response
    \/ dump_route_dict
    \/ collect_data_after_dump
    \/ collect_data_return

Spec == Init /\ [][Next]_vars

\* the download command: collect_files over a manifest, a checkpoint file and a disk
RECURSIVE SeqsUpTo(_, _)
SeqsUpTo(S, n) ==
    IF n = 0 THEN {<< >>}
    ELSE LET shorter == SeqsUpTo(S, n - 1) IN
         shorter \cup {Append(q, x) : q \in {r \in shorter : Len(r) = n - 1}, x \in S}

InitFiles ==
    /\ NamesIdle
    /\ DataIdle
    /\ ProbeIdle
    /\ fpc = "start"
    /\ resume \in BOOLEAN
    /\ workers \in 1..MaxWorkers
    /\ manifest \in {None} \cup {Some(ls) : ls \in SeqsUpTo({UrlLine(u) : u \in Urls}, MaxUrls)}
    \* a session that does not resume neither reads nor writes the checkpoint file
    /\ ckfile \in IF resume THEN CheckpointFiles ELSE {CheckpointFile("missing", {})}
    /\ disk \in SUBSET Paths
    /\ checkpoint = {} /\ tasks = << >>
    /\ downloaded = 0 /\ failed = 0 /\ skipped = 0 /\ total = 0
    /\ ferror = None /\ saves = 0 /\ run = 1 /\ first = NoFirst

NextFiles ==
    \/ collect_files_start
    \/ \E i \in 1..Len(tasks) : download_file_task_begin(i)
    \/ \E i \in 1..Len(tasks) : download_file_task_get_file(i)
    \/ \E i \in 1..Len(tasks) : get_file_request(i)
    \/ \E i \in 1..Len(tasks) : get_file_stream(i)
    \/ \E i \in 1..Len(tasks) : download_file_task_end(i)
    \/ \E i \in 1..Len(tasks) : collect_files_result(i)
    \/ collect_files_unwind
    \/ collect_files_save
    \/ collect_files_return

SpecFiles == InitFiles /\ [][NextFiles]_vars

\* one route of a session whose root document has arrived, its descriptor kept
InitRoutes ==
    /\ NamesIdle
    /\ pc = "loop"
    /\ get_unknown \in BOOLEAN
    /\ retry_count \in (-1)..1
    /\ total_routes = 1
    /\ idx = 0
    /\ routes_processed = 0
    /\ routes_skipped = 0
    /\ error = None
    /\ result = "none"
    /\ page = 1 /\ rc = 0 /\ outdata = << >> /\ total_pages = None
    /\ files = [f \in FileNames |-> NoFile]
    /\ req = [route |-> 0, page |-> 0, n |-> 0]
    /\ last = NoOutcome
    /\ got = << >>
    /\ writes = 0
    /\ branch = "none"
    /\ raised = NoException /\ root = RootOutcome("ok", 0) /\ route = NoRoute
    /\ FilesIdle
    /\ ProbeIdle

NextRoutes ==
    \/ collect_data_route_kept
    \/ dump_route_list_attempt
    \/ dump_route_list_no_response
    \/ dump_route_dict
    \/ collect_data_after_dump
    \/ collect_data_return

SpecRoutes == InitRoutes /\ [][NextRoutes]_vars

\* the download command over manifests with malformed lines, in an empty directory
InitRead ==
    /\ NamesIdle
    /\ DataIdle
    /\ ProbeIdle
    /\ fpc = "start"
    /\ resume \in BOOLEAN
    /\ workers = 1
    /\ manifest \in {Some(ls) : ls \in SeqsUpTo(Lines, MaxUrls)}
    /\ ckfile = CheckpointFile("missing", {})
    /\ disk = {}
    /\ checkpoint = {} /\ tasks = << >>
    /\ downloaded = 0 /\ failed = 0 /\ skipped = 0 /\ total = 0
    /\ ferror = None /\ saves = 0 /\ run = 1 /\ first = NoFirst

SpecRead == InitRead /\ [][NextFiles]_vars

\* one call of _test_route
InitProbe ==
    /\ NamesIdle
    /\ DataIdle
    /\ FilesIdle
    /\ BatchIdle
    /\ tpc = "start"
    /\ troute \in TestRoutes
    /\ probes = << >>
    /\ category = None
    /\ tgets = 0

NextProbe ==
    \/ test_route_begin
    \/ test_route_paged
    \/ test_route_plain

SpecProbe == InitProbe /\ [][NextProbe]_vars

\* one call of test_unknown_routes
InitBatch ==
    /\ NamesIdle
    /\ DataIdle
    /\ FilesIdle
    /\ tpc = "idle" /\ troute = NoTestRoute /\ probes = << >>
    /\ category = None /\ tgets = 0
    /\ bpc = "loop"
    /\ unknown \in 0..MaxUnknown
    /\ bi = 0
    /\ present = {}
    /\ categorized = [c \in Categories |-> << >>]

NextBatch ==
    \/ test_unknown_routes_next
    \/ test_route_begin
    \/ test_route_paged
    \/ test_route_plain
    \/ test_unknown_routes_append
    \/ test_unknown_routes_raise
    \/ test_unknown_routes_return

SpecBatch == InitBatch /\ [][NextBatch]_vars

\* the download command given twice in a row
NextTwice ==
    \/ NextFiles
    \/ collect_files_again

\* one worker: the tasks of a call run one after the other
InitTwice == InitFiles /\ workers = 1

SpecTwice == InitTwice /\ [][NextTwice]_vars

\* the output files of one session
MaxNameLen == 4
MaxNamed == 2
\* the characters of a route: the separator, the underscore, any other character
RouteChars == {"/", "_", "a"}
\* a key of "routes" in a discovery document: "/", or "/" followed by non-empty
\* segments joined by "/"
IsRouteName(s) ==
    /\ Len(s) >= 1 /\ s[1] = "/"
    /\ Len(s) > 1 => s[Len(s)] # "/"
    /\ \A i \in 1..(Len(s) - 1) : ~(s[i] = "/" /\ s[i + 1] = "/")
RouteNames == {s \in SeqsUpTo(RouteChars, MaxNameLen) : IsRouteName(s)}
\* the sets of at most n elements of S
RECURSIVE SetsUpTo(_, _)
SetsUpTo(S, n) ==
    IF n = 0 THEN {{}}
    ELSE LET less == SetsUpTo(S, n - 1) IN less \cup {x \cup {e} : x \in less, e \in S}

InitNames ==
    /\ DataIdle
    /\ FilesIdle
    /\ ProbeIdle
    /\ npc = "loop"
    /\ allroutes \in SetsUpTo(RouteNames, MaxNamed)
    /\ taken = {}
    /\ outfiles = {}

NextNames ==
    \/ \E r \in allroutes : collect_data_writes_list(r)
    \/ \E r \in allroutes : collect_data_writes_dict(r)
    \/ \E r \in allroutes : collect_data_writes_nothing(r)
    \/ collect_data_loop_over

SpecNames == InitNames /\ [][NextNames]_vars

\* ------------------------------------------------------------ properties
\* by what the server did: a response with a status below 400; a transport failure or
\* an error status
Accepted(o) == o.kind = "resp" /\ o.status < 400
Failed(o) == o.kind = "transport" \/ (o.kind = "resp" /\ o.status >= 400)
\* the step is a GET of dump_route_list
ListGet == pc = "list" /\ req' # req
OutFile == files[<<idx, "jsonl">>]
InList == pc \in {"list", "dumped"} /\ branch = "list"
ListEnded == pc = "dumped" /\ branch = "list"

\* the records of the first p accepted pages that were 200 responses with a list body
RECURSIVE RowsOf(_, _)
RowsOf(g, p) ==
    IF p = 0 THEN << >>
    ELSE RowsOf(g, p - 1) \o
         (IF g[p].status = 200 /\ g[p].body.k = "list"
          THEN PageRecords(p, g[p].body.n) ELSE << >>)

\* C1: at every point of the loop each route taken so far has incremented exactly one
\* of routes_processed / routes_skipped, once (no step increments both or either by
\* more than one), so on a normal return routes_processed + routes_skipped =
\* total_routes.
C1_EveryRouteCountedOnce ==
    /\ [](/\ pc \in {"loop", "done"} => routes_processed + routes_skipped = idx
          /\ pc \in {"list", "dict", "dumped"} => routes_processed + routes_skipped = idx - 1
          /\ pc = "done" => routes_processed + routes_skipped = total_routes)
    /\ [][/\ routes_processed' - routes_processed \in {0, 1}
           /\ routes_skipped' - routes_skipped \in {0, 1}
           /\ (routes_processed' + routes_skipped') - (routes_processed + routes_skipped)
                \in {0, 1}]_vars

C1_Witness ==
    /\ pc = "done" /\ total_routes >= 2
    /\ routes_processed >= 1 /\ routes_skipped >= 1
    /\ branch = "dict" /\ result = "raise"

\* C2: when the loop body of a route raises an exception that is no user interrupt, in
\* collect_data itself (missing key, malformed self-link) or in the dumper, the route is
\* counted as skipped, the loop goes on with the next route and no error ends the
\* session; the session returns only when every route has been taken.
C2_RouteFailureIsSkipped ==
    /\ [][((pc = "dumped" /\ result = "raise")
            \/ (pc = "loop" /\ idx' = idx + 1 /\ branch' = "raise"))
           => /\ routes_skipped' = routes_skipped + 1
              /\ routes_processed' = routes_processed
              /\ pc' = "loop" /\ error' = None
              /\ idx' <= total_routes]_vars
    /\ [](pc = "done" => (idx = total_routes /\ error = None))

C2_Witness ==
    /\ pc = "done" /\ total_routes >= 2 /\ result = "raise" /\ routes_skipped >= 1

\* C3: without a total-pages hint, when pages 1..k were answered 200 with a non-empty
\* list and page k+1 with an empty list, the dump ends with one file written, holding
\* the records of pages 1..k in page order and within-page order.
C3_PagesThenEmpty ==
    (/\ ListEnded /\ total_pages = None /\ Len(got) >= 1
     /\ \A p \in 1..Len(got) :
          /\ got[p].status = 200 /\ got[p].body.k = "list"
          /\ (got[p].body.n = 0) <=> (p = Len(got)))
    => /\ writes = 1 /\ result = "return"
       /\ OutFile = File(RowsOf(got, Len(got) - 1))

\* a 2-item first page, an empty second page: one file of 2 lines
C3_Witness ==
    /\ ListEnded /\ total_pages = None /\ Len(got) = 2
    /\ got[1].status = 200 /\ got[1].body = [k |-> "list", n |-> 2]
    /\ got[2].status = 200 /\ got[2].body = [k |-> "list", n |-> 0]
    /\ writes = 1 /\ OutFile = File(<< <<1, 1>>, <<1, 2>> >>)

\* C4: when dump_route_list ends on a failed attempt (every one of the retry_count
\* attempts for that page failed by a transport or HTTP-status failure), no file was
\* written, the route's output file is as the session found it, the call returns, and
\* the latest GET is the last attempt for that very page.
C4_ExhaustedRetriesAbort ==
    (ListEnded /\ Failed(last))
    => /\ writes = 0 /\ result = "return"
       /\ OutFile \in {NoFile, StaleFile}
       /\ req = [route |-> idx, page |-> page, n |-> retry_count]

C4_Witness ==
    /\ ListEnded /\ Failed(last) /\ page >= 2 /\ Len(outdata) >= 1
    /\ retry_count >= 2 /\ OutFile = StaleFile

\* C5: an error object answered for the page past the end of the data (at least one
\* page of records was accumulated) ends the dump normally: the attempt is not
\* retried, and the accumulated records are written.
C5_ErrorObjectEndsDump ==
    (InList /\ last.kind = "resp" /\ last.body = ErrorObject /\ Len(outdata) >= 1)
    => /\ pc = "dumped" /\ result = "return"
       /\ writes = 1 /\ OutFile = File(outdata)

\* C6: when the page loop ends by a stop rule on a 200 response (empty list, non-list
\* body, non-JSON body, hint reached), the file is written once and holds exactly the
\* records of the list pages accepted, an empty file when there were none.
C6_StopRuleWritesAll ==
    (ListEnded /\ Accepted(last) /\ last.status = 200)
    => /\ writes = 1 /\ result = "return"
       /\ OutFile = File(RowsOf(got, Len(got)))
       /\ outdata = RowsOf(got, Len(got))

\* a non-JSON body on the second page, the first page kept
C6_Witness ==
    /\ ListEnded /\ Len(got) = 2 /\ last.status = 200 /\ last.body.k = "nonjson"
    /\ Len(OutFile.rows) >= 1

\* C7: the hint is read from the first page only; once a well-formed integer hint T is
\* known no GET is made for a page above T, and an accepted page numbered T or above
\* ends the loop; a malformed hint on page 1 leaves the dump going.
C7_NoPageAboveHint ==
    /\ [][(ListGet /\ page > 1) => total_pages' = total_pages]_vars
    /\ [][(ListGet /\ total_pages # None) => page <= total_pages[1]]_vars
    /\ [][(ListGet /\ Accepted(last') /\ total_pages' # None /\ page >= total_pages'[1])
           => pc' = "dumped"]_vars
    /\ [][(ListGet /\ page = 1 /\ Accepted(last') /\ last'.status = 200
            /\ last'.body.k = "list" /\ last'.body.n > 0 /\ total_pages' = None)
           => (pc' = "list" /\ page' = 2)]_vars

\* C8: every page has its own retry budget: at most retry_count GETs are made for a
\* page, rc counts the GETs made for the current page and is 0 when a page starts, a
\* failed attempt below retry_count leaves another attempt for the same page enabled,
\* and an accepted response ends the attempts for its page.
C8_RetryBudgetPerPage ==
    /\ []((InList /\ req.route = idx /\ req.page = page)
          => (req.n <= retry_count /\ rc = req.n))
    /\ []((pc = "list" /\ ~(req.route = idx /\ req.page = page)) => rc = 0)
    /\ [][(ListGet /\ Failed(last') /\ req'.n < retry_count)
           => (pc' = "list" /\ page' = page /\ may_attempt(rc', retry_count))]_vars
    /\ [][(ListGet /\ Accepted(last'))
           => ((pc' = "dumped") \/ (page' = page + 1 /\ rc' = 0))]_vars

C8_Witness ==
    /\ pc = "list" /\ page >= 2 /\ retry_count >= 2
    /\ req = [route |-> idx, page |-> page, n |-> 1] /\ Failed(last)

\* C9: a user interrupt during a page request ends dump_route_list at once with the
\* interrupt and without writing; collect_data counts nothing for the route, takes no
\* further route, makes no further GET and ends with KeyboardInterrupt.
C9_InterruptPropagates ==
    /\ [][(ListGet /\ last'.kind = "interrupt")
           => (pc' = "dumped" /\ result' = "interrupt" /\ files' = files)]_vars
    /\ []((ListEnded /\ result = "interrupt") => writes = 0)
    /\ [][(pc = "dumped" /\ result = "interrupt")
           => /\ pc' = "interrupted" /\ error' = Some("KeyboardInterrupt")
              /\ UNCHANGED << routes_processed, routes_skipped, idx, req, files >>]_vars
    /\ [][pc = "interrupted" => UNCHANGED << pc, error, idx, req, files >>]_vars

C9_Witness ==
    /\ pc = "interrupted" /\ branch = "list" /\ idx < total_routes
    /\ req.page >= 2 /\ req.n < retry_count
    /\ error = Some("KeyboardInterrupt")

\* C10: in collect_files a failure inside one download task never crosses the pool
\* boundary: for every URL submitted to the pool, whatever goes wrong for it (TLS
\* failure, timeout, another transport error, or any other exception while its path is
\* derived or it is fetched), the task ends with a (url, success, message) outcome
\* whose success is false, every other submitted task still runs to its own outcome,
\* and collect_files returns its statistics instead of raising.
Submitted == tasks # << >>
C10_TaskFailureStaysInPool ==
    /\ \A i \in 1..Len(tasks) :
           tasks[i].st = "done" => tasks[i].res \in {"ok", "fail"}
    /\ \A i \in 1..Len(tasks) :
           (tasks[i].st = "done" /\ tasks[i].why \notin {"satisfied", "exists", "ok"})
               => tasks[i].res = "fail"
    /\ (Submitted /\ fpc \in {"done", "raised"}) => AllDone(tasks)
    /\ Submitted => (fpc # "raised" /\ ferror = None)

\* C11: after a session of collect_files in which tasks ran (resuming, so that a
\* checkpoint is kept), whatever the interleaving of the tasks, the checkpoint file
\* left at the end of the session lists the target path of every task whose fetch
\* succeeded.
Fetched(t) == t.st = "done" /\ t.res = "ok" /\ t.why = "ok"
SessionOver == fpc \in {"done", "raised"}
C11_SuccessfulPathsPersisted ==
    (resume /\ Submitted /\ SessionOver)
    => \A i \in 1..Len(tasks) :
           Fetched(tasks[i])
               => (ckfile.st = "ok" /\ filepath(tasks[i].url) \in ckfile.paths)

\* C12: whatever the interleaving of the tasks, and also when several entries of the
\* manifest have the same target path, a path enters the checkpoint set only once a
\* fetch of that path has ended successfully: at the moment a path is added, some task
\* has fetched that path to its end, and no task is still writing it.
FetchedOk(t) == t.st \in {"fetched", "done"} /\ t.res = "ok" /\ t.why = "ok"
C12_AddedOnlyAfterFetch ==
    [][\A p \in checkpoint' \ checkpoint :
           fpc # "start"
           => /\ \E i \in 1..Len(tasks') :
                     FetchedOk(tasks'[i]) /\ filepath(tasks'[i].url) = p
              /\ \A i \in 1..Len(tasks') :
                     filepath(tasks'[i].url) = p => tasks'[i].st # "streaming"]_vars

\* C13: a task whose target path is in the checkpoint set or exists on disk when the
\* task looks is satisfied without a GET; either source alone is enough: with the
\* checkpoint file gone and the file on disk the task ends at once with success, and a
\* URL whose path is only in the loaded checkpoint is not even submitted. A GET is made
\* only by a task whose own look, at the head of get_file, found the file absent.
TaskIds == 1..Len(tasks)
PathOf(i) == filepath(tasks[i].url)
C13_SatisfiedNoFetch ==
    /\ [][\A i \in TaskIds :
              (tasks[i].st = "queued" /\ tasks'[i].st # "queued"
                   /\ ~urlparse_raises(tasks[i].url)
                   /\ (PathOf(i) \in checkpoint \/ PathOf(i) \in disk))
              => (tasks'[i].st = "done" /\ tasks'[i].res = "ok" /\ ~tasks'[i].net)]_vars
    /\ [][\A i \in TaskIds :
              (tasks[i].st = "running" /\ tasks'[i].st # "running" /\ PathOf(i) \in disk)
              => (tasks'[i].st = "fetched" /\ tasks'[i].res = "ok"
                      /\ ~tasks'[i].net)]_vars
    /\ [][\A i \in TaskIds :
              (~tasks[i].net /\ tasks'[i].net) => tasks[i].st = "requesting"]_vars
    /\ [][\A i \in TaskIds :
              (tasks[i].st # "requesting" /\ tasks'[i].st = "requesting")
              => (tasks[i].st = "running" /\ PathOf(i) \notin disk)]_vars
    /\ [][(fpc = "start" /\ fpc' = "pool")
              => \A i \in 1..Len(tasks') : filepath(tasks'[i].url) \notin checkpoint']_vars
    /\ [](\A i \in TaskIds : tasks[i].why \in {"satisfied", "exists"} => ~tasks[i].net)

\* the checkpoint file is gone, the file is on disk: the task is satisfied
C13_Witness ==
    /\ resume /\ ckfile.st = "missing" /\ checkpoint = {} /\ Submitted
    /\ tasks[1].st = "done" /\ tasks[1].why = "satisfied" /\ ~tasks[1].net
    /\ PathOf(1) \in disk

\* C14 as stated: a second call of collect_files over the unchanged manifest makes no
\* GET, whatever the manifest and whatever the fetches of the first call came to.
C14_SecondRunNoFetch ==
    run = 2 => \A i \in TaskIds : ~tasks[i].net

\* C14 as amended: a second call of collect_files over the unchanged manifest makes
\* no GET when no task of the first call ended with a failure outcome.
C14_SecondRunNoFetchAfterSuccess ==
    (run = 2 /\ ~first.failed) => \A i \in TaskIds : ~tasks[i].net

\* the first call fetched, the second found every file and is over
C14_Witness ==
    /\ run = 2 /\ ~first.failed /\ first.fetched
    /\ fpc = "done" /\ Submitted /\ downloaded = Len(tasks)
    /\ \A i \in TaskIds : tasks[i].why = "satisfied"

\* C15: for a manifest of one entry whose fetch fails, collect_files returns
\* failed = 1 and downloaded = 0 and the path of the entry is neither in the checkpoint
\* set nor in the checkpoint file afterwards; in general the step that ends a task
\* whose fetch failed leaves the checkpoint set as it was.
FetchFailures == {"transport", "midstream", "oserror"}
C15_FailedTaskNotCheckpointed ==
    /\ []((manifest # None /\ Len(manifest[1]) = 1 /\ Submitted /\ fpc = "done"
              /\ tasks[1].why \in FetchFailures)
          => /\ failed = 1 /\ downloaded = 0
             /\ PathOf(1) \notin checkpoint
             /\ IF resume THEN saves = 1 /\ ckfile.st = "ok" /\ PathOf(1) \notin ckfile.paths
                          ELSE saves = 0)
    /\ [][\A i \in TaskIds :
              (tasks[i].st = "fetched" /\ tasks'[i].st = "done"
                   /\ tasks[i].why \in FetchFailures)
              => checkpoint' = checkpoint]_vars

\* one entry, a resuming session, the fetch timed out
C15_Witness ==
    /\ manifest # None /\ Len(manifest[1]) = 1 /\ Submitted /\ fpc = "done"
    /\ resume /\ tasks[1].why = "transport" /\ failed = 1 /\ saves = 1

\* C16: in every session with resume = true the URLs of the manifest are partitioned
\* before dispatch: every URL whose target path is in the loaded checkpoint or exists
\* on disk is counted in skipped and is not submitted, and only the others become
\* tasks (manifests of well-formed URLs).
ManifestUrls == read_media_urls(manifest[1]).urls
AlreadyThere(u) == filepath(u) \in load_checkpoint(ckfile) \/ filepath(u) \in disk
C16_SatisfiedUrlsSkipped ==
    [][(fpc = "start" /\ resume /\ manifest # None /\ fpc' \in {"pool", "done"}
            /\ \A k \in 1..Len(ManifestUrls) : ~urlparse_raises(ManifestUrls[k]))
       => /\ \A i \in 1..Len(tasks') : ~AlreadyThere(tasks'[i].url)
          /\ skipped' = Cardinality({k \in 1..Len(ManifestUrls) :
                                         AlreadyThere(ManifestUrls[k])})
          /\ Len(tasks') = Len(ManifestUrls) - skipped']_vars

\* C17: a session of collect_files that keeps a checkpoint (resume = true) and has
\* submitted tasks persists the checkpoint exactly once: never while a submitted task
\* is unfinished, never twice, and by the time the session is over the one write has
\* been made, before the statistics are returned.
C17_CheckpointSavedOnce ==
    /\ [](saves <= 1)
    /\ [][saves' > saves => (AllDone(tasks) /\ fpc = "pool" /\ fpc' = "saved")]_vars
    /\ []((resume /\ Submitted /\ SessionOver) => saves = 1)

\* C18: loading the checkpoint never ends the session: when the checkpoint file is
\* missing or its content is corrupt in any way (text that is not JSON, a JSON value
\* that is not an object, an object whose downloaded_files is missing or not a list),
\* a resuming session goes on with the empty set.
C18_CorruptCheckpointIsFresh ==
    [][(fpc = "start" /\ manifest # None /\ resume /\ ckfile.st # "ok")
       => (fpc' # "raised" /\ ferror' = None /\ checkpoint' = {})]_vars

\* C19: the manifest is read line by line: a malformed line (blank, not JSON, JSON
\* that is not an object, an object without source_url) is skipped and never ends the
\* read, and the source_url values of the valid lines are yielded in file order: they
\* are what collect_files counts in total and, with nothing to filter, submits.
ValidUrls ==
    LET valid == SelectSeq(manifest[1], LAMBDA l : l.k = "url")
    IN  [i \in 1..Len(valid) |-> valid[i].url]
C19_MalformedLinesSkipped ==
    [][(fpc = "start" /\ manifest # None /\ load_checkpoint_error(ckfile) = None)
       => /\ ferror' # Some("TypeError")
          /\ total' = Len(ValidUrls)
          /\ checkpoint' = {} => (/\ Len(tasks') = Len(ValidUrls)
                                  /\ \A i \in 1..Len(tasks') :
                                         tasks'[i].url = ValidUrls[i])]_vars

\* C20: when the manifest file does not exist collect_files ends with
\* MediaFileNotFoundError at its first step, whatever the checkpoint file holds: the
\* checkpoint is not loaded, no task exists, nothing is fetched or written. An empty
\* manifest is another case and no error: the call returns with total = 0.
C20_MissingManifestIsError ==
    /\ [][(fpc = "start" /\ manifest = None)
          => /\ fpc' = "raised" /\ ferror' = Some("MediaFileNotFoundError")
             /\ UNCHANGED << checkpoint, tasks, disk, ckfile, saves >>]_vars
    /\ []((manifest = None /\ fpc # "start")
          => (fpc = "raised" /\ tasks = << >> /\ checkpoint = {} /\ saves = 0))
    /\ [][(fpc = "start" /\ manifest = Some(<< >>)
               /\ ~(resume /\ load_checkpoint_error(ckfile) # None))
          => (fpc' = "done" /\ ferror' = None /\ total' = 0 /\ tasks' = << >>)]_vars

\* no manifest, and a checkpoint file that could not have been loaded
C20_Witness ==
    /\ manifest = None /\ fpc = "raised" /\ ferror = Some("MediaFileNotFoundError")
    /\ resume /\ ckfile.st = "nonobject"

\* C21: given a manifest that exists and yields no URL, collect_files returns at its
\* first step with downloaded = 0, failed = 0, skipped = 0 and total = 0: no task is
\* submitted, nothing is fetched, and the checkpoint file is not written.
YieldsNoUrl == manifest # None /\ \A k \in 1..Len(manifest[1]) : manifest[1][k].k # "url"
C21_EmptyManifestReturnsZeros ==
    [][(fpc = "start" /\ YieldsNoUrl)
       => /\ fpc' = "done" /\ ferror' = None
          /\ downloaded' = 0 /\ failed' = 0 /\ skipped' = 0 /\ total' = 0
          /\ tasks' = << >>
          /\ UNCHANGED << ckfile, disk, saves >>]_vars

\* C22: dump_route_dict makes exactly one GET and never retries; it writes the output
\* file only when the status is 200, and it never returns normally without having
\* written the file: every other final status and every transport failure is raised.
C22_SingletonDumpRaisesUnless200 ==
    [][pc = "dict"
       => /\ pc' = "dumped"
          /\ req' = [route |-> idx, page |-> 0, n |-> 1]
          /\ (writes' # writes => last'.kind = "resp" /\ last'.status = 200)
          /\ (result' = "return"
                => last'.kind = "resp" /\ last'.status = 200 /\ writes' = writes + 1)]_vars

\* C23: when the body of the root document is not JSON, or is JSON without a routes
\* key, collect_data ends with an APIError and no other type of exception, and no
\* route is taken or dumped.
RootUnusable == pc = "failed" /\ root.k \in {"badjson", "noroutes", "notobject"}
C23_UnusableRootIsAPIError ==
    [](RootUnusable
         => /\ raised.type = "APIError" /\ error = Some("APIError")
            /\ idx = 0 /\ branch = "none" /\ req.n = 0 /\ writes = 0)

\* C24 as stated: every failure to obtain the root document ends the session with
\* SSLVerificationError (TLS) or APIError (otherwise), with the HTTP status when there
\* is one, and the message always carries a suggestion, whatever the status code and
\* also without one.
RootNotObtained == pc = "failed" /\ root.k \in {"ssl", "http", "transport", "badjson"}
RootErrorTyped ==
    /\ raised.type = (IF root.k = "ssl" THEN "SSLVerificationError" ELSE "APIError")
    /\ error = Some(raised.type)
    /\ raised.status_code = (IF root.k = "http" THEN root.status ELSE 0)
    /\ idx = 0 /\ req.n = 0
C24_RootFailureAlwaysSuggests ==
    [](RootNotObtained => RootErrorTyped /\ raised.suggestion)

\* C24 (amended): the error is typed as stated and carries the HTTP status; its
\* message has a suggestion exactly for a TLS verification failure and for the
\* statuses 401, 403, 404 and 500, and none for another status or without a status.
C24_RootFailureSuggestsForKnownStatus ==
    [](RootNotObtained
         => /\ RootErrorTyped
            /\ raised.suggestion
                 <=> (root.k = "ssl" \/ (root.k = "http" /\ root.status \in {401, 403, 404, 500})))
C24_Witness ==
    /\ pc = "failed" /\ root = RootOutcome("http", 503)
    /\ raised.type = "APIError" /\ raised.status_code = 503 /\ ~raised.suggestion

\* the route of the session has been taken by the loop
RouteTaken == route # NoRoute
\* the self-link of the route resolves to a URL
SelfLink(r) == get_self_url(r.self) = Some("url")
\* absent from the four lists of the table and without a regex marker
Untabled(r) == r.tbl = {} /\ ~r.hasP
\* no GET was made for the route and it was counted as skipped
SkippedUnrequested ==
    /\ pc \in {"loop", "done"} /\ branch \in {"skip", "nourl", "raise"}
    /\ req.n = 0 /\ writes = 0
    /\ routes_skipped = 1 /\ routes_processed = 0

\* C25: a route the table resolves to protected or useless, or a route absent from the
\* table whose path has a regex marker, is counted as skipped and no HTTP request is
\* made for it, also when the table names it in more than one list (the table's
\* precedence is protected, public-list, public-dict, useless).
C25_SkipCategoriesUnrequested ==
    (RouteTaken /\ (\/ analyze_category(route.tbl) \in {"protected", "useless"}
                    \/ (route.tbl = {} /\ route.hasP)))
      => /\ req.n = 0 /\ writes = 0 /\ routes_processed = 0
         /\ pc \in {"loop", "done"} => routes_skipped = 1

\* C26: collect_data resolves the table category of a route as analyze_routes does,
\* protected before public-list before public-dict before useless: a route analyzed
\* as protected or useless is skipped, one analyzed as public-list goes to the
\* paginated dump and one analyzed as public-dict to the singleton dump.
C26_SamePrecedence ==
    (RouteTaken /\ SelfLink(route))
      => LET c == analyze_category(route.tbl) IN
         /\ c \in {"protected", "useless"} => branch = "skip"
         /\ c = "public-list" => branch = "list"
         /\ c = "public-dict" => branch = "dict"

\* C27: a route the table resolves to public-list that has a resolvable self-link is
\* handed to dump_route_list, one resolved to public-dict to dump_route_dict, once
\* (each hand-off takes a new route of the loop), and it is counted as processed when
\* the dumper returns; a session over the single route /wp/v2/posts, listed as
\* public-list, ends with routes_processed = 1 and routes_skipped = 0.
C27_TabledRoutesDumpedOnce ==
    /\ [][(pc = "loop" /\ idx < total_routes /\ SelfLink(route'))
           => /\ analyze_category(route'.tbl) = "public-list"
                   => pc' = "list" /\ branch' = "list"
              /\ analyze_category(route'.tbl) = "public-dict"
                   => pc' = "dict" /\ branch' = "dict"]_vars
    /\ [][(pc' \in {"list", "dict"} /\ pc \notin {"list", "dict"})
           => pc = "loop" /\ idx' = idx + 1]_vars
    /\ [][(pc = "dumped" /\ result = "return")
           => /\ routes_processed' = routes_processed + 1
              /\ UNCHANGED routes_skipped /\ pc' = "loop"]_vars
    /\ [](pc = "done" /\ route.tbl = {"public-list"} /\ SelfLink(route)
            => routes_processed = 1 /\ routes_skipped = 0 /\ total_routes = 1)
C27_Witness ==
    /\ pc = "done" /\ route.tbl = {"public-list"} /\ SelfLink(route)
    /\ branch = "list" /\ routes_processed = 1 /\ routes_skipped = 0

\* what _test_route returns for a route and the outcomes of its two GETs
test_route_result(t, o1, o2) ==
    LET b == test_route_begins(t) IN
    CASE b = "useless" -> Some("useless")
      [] b = "paged" -> IF paged_verdict(o1) # None THEN paged_verdict(o1)
                        ELSE plain_verdict(t, o2)
      [] b = "plain" -> plain_verdict(t, o2)
      [] OTHER -> None
\* the route of collect_data as _test_route reads it
AsTestRoute(r, segs, digit) ==
    [marker |-> FALSE, segs |-> segs, digit |-> digit, self |-> r.self, eps |-> r.eps]

C29_ForbiddenProbeIsProtected ==
    (tpc = "returned" /\ \E i \in 1..Len(probes) : probes[i].status \in {401, 403})
      => category = Some("protected")
C29_Witness ==
    /\ tpc = "returned" /\ tgets = 2 /\ troute.eps = "paged"
    /\ probes[1].at = "paged" /\ probes[1].status = 404
    /\ probes[2].at = "plain" /\ probes[2].status = 403
    /\ category = Some("protected")

\* the route gets past the regex marker and has an endpoint
Probed == ~troute.marker /\ troute.eps \notin {"missing", "empty"}
NoSelfLink == get_self_url(troute.self) = None
\* every GET of the call raised a transport error, and there was one
AllProbesRaised ==
    /\ tgets > 0
    /\ \A i \in 1..Len(probes) : probes[i].k = "transport"
\* the plain GET raised a transport error
PlainGetRaised ==
    tgets > 0 /\ probes[Len(probes)].at = "plain" /\ probes[Len(probes)].k = "transport"

\* C30 as stated: when the route has no resolvable self-link, or every probe raised
\* a transport error, _test_route returns public-list if the first endpoint declares
\* page and per_page, otherwise public-dict if it declares an argument, otherwise None.
C30_FallbackByArguments ==
    (tpc = "returned" /\ Probed /\ (NoSelfLink \/ AllProbesRaised))
      => category = (CASE troute.eps = "paged" -> Some("public-list")
                       [] troute.eps = "plain" -> Some("public-dict")
                       [] OTHER -> None)

\* C30 (amended): with no resolvable self-link _test_route makes no GET and returns
\* None whatever the arguments; when the plain GET raised a transport error it returns
\* public-list if the args of the first endpoint are a mapping that declares page and
\* per_page, otherwise public-dict if they are a mapping (an empty one too),
\* otherwise None.
C30_FallbackAfterTransportError ==
    (tpc = "returned" /\ Probed)
      => /\ NoSelfLink => category = None /\ tgets = 0
         /\ PlainGetRaised
              => category = (CASE troute.eps = "paged" -> Some("public-list")
                               [] troute.eps \in {"plain", "noargs"} -> Some("public-dict")
                               [] OTHER -> None)
C30_Witness ==
    /\ tpc = "returned" /\ Probed /\ troute.eps = "noargs"
    /\ AllProbesRaised /\ category = Some("public-dict")

\* the call returned after the GET of the bare self-link was answered
PlainAnswered ==
    /\ tpc = "returned" /\ tgets > 0
    /\ probes[Len(probes)].at = "plain" /\ probes[Len(probes)].k = "resp"
PlainAnswer == probes[Len(probes)]

\* C31: after the GET of the bare self-link, _test_route returns useless exactly when
\* the answer is 200 (and not 401 or 403), the last segment of the path has a digit,
\* the path has more than 3 segments and the body is an object with an id field; this
\* test comes before public-dict, and a path of 3 segments or fewer is never
\* classified useless by it.
C31_UselessOnlyForDeepItemRoutes ==
    PlainAnswered
      => /\ category = Some("useless")
              <=> (/\ PlainAnswer.status = 200 /\ PlainAnswer.body = "item"
                   /\ troute.digit /\ troute.segs > 3)
         /\ troute.segs <= 3 => category # Some("useless")

\* the paged probe, where the call made one
PagedProbed == Len(probes) > 0 /\ probes[1].at = "paged"
\* an answer that is neither 401, 403 nor 200 with a list, or a transport error
Inconclusive(o) ==
    \/ o.k = "transport"
    \/ o.k = "resp" /\ o.status \notin {200, 401, 403}
    \/ o.k = "resp" /\ o.status = 200 /\ o.body # "list"
\* the per-item rule as stated: a digit in the last segment, more than 3 segments, an id
StatedItemRule(t, o) == t.digit /\ t.segs > 3 /\ o.body = "item"

\* C32: for a route that declares page and per_page, a paged probe answered 200 with a
\* list makes _test_route return public-list without a second request; when the probe
\* is inconclusive, or the two arguments are not both declared, the GET of the bare
\* self-link decides: 200 with a list gives public-list, 200 with an object that is
\* not a list gives public-dict (the per-item rule apart).
C32_ProbeThenBareGet ==
    /\ (tpc = "returned" /\ PagedProbed /\ probes[1].k = "resp"
          /\ probes[1].status = 200 /\ probes[1].body = "list")
         => category = Some("public-list") /\ tgets = 1
    /\ PagedProbed => troute.eps = "paged"
    /\ (PagedProbed /\ Inconclusive(probes[1]))
         => \/ tpc = "plain" /\ tgets = 1
            \/ tpc = "returned" /\ tgets = 2 /\ probes[2].at = "plain"
    /\ (PlainAnswered /\ PlainAnswer.status = 200)
         => /\ PlainAnswer.body = "list" => category = Some("public-list")
            /\ (PlainAnswer.body \in {"dict", "item"} /\ ~StatedItemRule(troute, PlainAnswer))
                 => category = Some("public-dict")

\* the call has looked the self-link up: no regex marker, an endpoint, past the start
SelfLinkLookedUp == tpc # "start" /\ Probed

\* C34: get_self_url is total over the shapes of a descriptor: an object self-link with
\* href, a bare string and a non-empty list whose first element has href give the
\* URL; every other shape (no _links, no self, an empty list, an object or a list
\* element without href) gives None, and no shape makes it raise.
C34_SelfUrlTotal ==
    SelfLinkLookedUp
      => /\ tpc # "raised"
         /\ troute.self \in {"dict_href", "str", "list_href"}
              => get_self_url(troute.self) = Some("url") /\ (tgets > 0 \/ tpc \in {"paged", "plain"})
         /\ troute.self \notin {"dict_href", "str", "list_href"}
              => /\ get_self_url(troute.self) = None
                 /\ tpc = "returned" /\ category = None /\ tgets = 0

\* the lists that hold the route at position i, and how often list c holds it
ListsOf(i) == {c \in Categories : \E k \in 1..Len(categorized[c]) : categorized[c][k] = i}
TimesIn(c, i) == Cardinality({k \in 1..Len(categorized[c]) : categorized[c][k] = i})

\* C33: test_unknown_routes puts every unknown route that the discovery document holds
\* into exactly one of the lists protected, public-list, public-dict, useless, once; a
\* route with an empty endpoint list and every route _test_route leaves unresolved
\* goes to useless; no route is lost (the batch ends by returning the lists) and
\* none is listed twice.
C33_EveryUnknownRouteInOneList ==
    /\ [](bpc # "raised")
    /\ [](bpc = "returned"
            => \A i \in 1..unknown :
                 IF i \in present
                 THEN \E c \in Categories : ListsOf(i) = {c} /\ TimesIn(c, i) = 1
                 ELSE ListsOf(i) = {})
    /\ [][(bpc = "loop" /\ tpc = "returned"
             /\ (category = None \/ troute.eps \in {"missing", "empty"}))
           => categorized' = [categorized EXCEPT !["useless"] = Append(@, bi)]]_vars

\* C35: a target file is on disk only if a fetch of it completed: when a download fails
\* while the body is streamed into the file opened for writing, no file is left at the
\* target path, so that no later task and no later session takes it for satisfied.
C35_FailedStreamLeavesNoFile ==
    [][\A i \in TaskIds :
          (tasks[i].st = "streaming" /\ tasks'[i].st = "fetched"
               /\ tasks'[i].why = "midstream")
            => /\ tasks'[i].res = "fail"
               /\ ~exists(filepath(tasks[i].url), disk')]_vars

\* C36: the tasks derived from one manifest have pairwise distinct target paths, also
\* when the manifest repeats a URL or holds URLs that differ only in host, so no two
\* tasks of a session are writing the same target file at the same time.
C36_DistinctTargets ==
    \A i \in TaskIds : \A j \in TaskIds :
        (i # j /\ ~urlparse_raises(tasks[i].url) /\ ~urlparse_raises(tasks[j].url))
          => /\ PathOf(i) # PathOf(j)
             /\ ~(tasks[i].st = "streaming" /\ tasks[j].st = "streaming")

\* C40: dump_route_list called with retry_count = 0 or a negative one makes no HTTP
\* request, writes no output file and returns without raising, and collect_data counts
\* the route as processed although nothing was fetched.
C40_NoRetriesNoRequest ==
    /\ [][(pc = "list" /\ retry_count <= 0)
           => /\ pc' = "dumped" /\ result' = "return"
              /\ UNCHANGED << req, last, files, writes, outdata >>]_vars
    /\ [][(pc = "dumped" /\ branch = "list" /\ retry_count <= 0)
           => /\ pc' = "loop"
              /\ routes_processed' = routes_processed + 1
              /\ UNCHANGED << routes_skipped, files, req >>]_vars
C40_Witness ==
    /\ pc = "done" /\ retry_count = -1 /\ branch = "list"
    /\ routes_processed = 1 /\ routes_skipped = 0
    /\ req.n = 0 /\ \A f \in FileNames : ~files[f].exists

\* the file the dumper of the current route writes to
DumpFile == files[<<idx, IF branch = "list" THEN "jsonl" ELSE "json">>]

\* C37: every route collect_data counts as processed has an output file written
\* during the session by its dumper (.jsonl for the paginated dump, .json for the
\* singleton dump); a route whose dump wrote no file is counted as skipped.
C37_ProcessedRoutesHaveFiles ==
    [][pc = "dumped"
       => /\ routes_processed' = routes_processed + 1
               => writes = 1 /\ DumpFile.exists
          /\ (writes = 0 /\ result # "interrupt")
               => /\ routes_skipped' = routes_skipped + 1
                  /\ UNCHANGED routes_processed]_vars

\* C38: whenever collect_files returns normally, downloaded + failed + skipped = total
\* and total is the number of URLs read from the manifest, a repeated URL counted
\* each time; with or without resume, whatever the checkpoint file holds and
\* however the tasks end
C38_CountsAddUp ==
    fpc = "done"
        => /\ downloaded + failed + skipped = total
           /\ total = Len(read_media_urls(manifest[1]).urls)

\* a resumed session over a manifest that names one URL twice and a second URL:
\* collect_files has returned, having skipped, downloaded or failed each
C38_Witness ==
    /\ fpc = "done"
    /\ total = MaxUrls
    /\ \E i, j \in 1..total :
           i # j /\ read_media_urls(manifest[1]).urls[i] = read_media_urls(manifest[1]).urls[j]
    /\ failed >= 1
    /\ downloaded + skipped >= 1

\* C39: within one session no two distinct routes write the same output file: the
\* mapping from a route to its file name (slashes to underscores) sends distinct
\* routes of the discovery document to distinct names
C39_DistinctOutputFiles ==
    \A w1, w2 \in outfiles : w1.file = w2.file => w1.route = w2.route

====
